---- MODULE Spec2Model ----
(***************************************************************************)
(* Model of the rehearsal splitter (src/code/splitter.go).                 *)
(*                                                                         *)
(* Times are the float64 seconds of the program in fixed point: one unit   *)
(* is 1e-7 s, so the literal 0.1 of the trailing guard is Eps units and    *)
(* 0.1000001 s is Eps + 1 units.  Arithmetic on the modelled values is     *)
(* exact (no binary rounding).                                             *)
(*                                                                         *)
(* A Go slice is a record [isNil, elems]: the zero value of a slice        *)
(* variable is nil, make([]T, 0) is empty and not nil, append never        *)
(* returns nil.                                                            *)
(***************************************************************************)
EXTENDS Integers, Sequences, FiniteSets, TLC

VARIABLES
    silences,       \* the detected silences
    totalDuration,  \* the duration of the recording
    cfg,            \* the resolved Config
    songSegments,   \* the segments to export
    pc,             \* the position of the program
    prev,           \* the result of the previous call of the segment deriver
    flags,          \* the CLI flags the user set, with their values
    file,           \* the config file: its status and the keys it gives
    exportedFiles,  \* main's exportedFiles
    disk,           \* the output directory: whether it exists, and its files
    setlist,        \* the setlist file as the rename step found it
    stderr,         \* the markers the silencedetect run printed
    calls           \* the external commands and file operations run so far

vars == <<silences, totalDuration, cfg, songSegments, pc, prev, flags, file,
          exportedFiles, disk, setlist, stderr, calls>>

\* The variables of the configuration loader and of the pipeline.
configVars == <<flags, file>>
runVars == <<exportedFiles, disk, setlist, stderr, calls>>

\* The literal 0.1 (seconds) of the trailing guard, in units of 1e-7 s.
Eps == 1000000

\* Largest number of silences in an input list.
MaxSil == 2
\* Silence boundaries lie on the grid 0, Eps, ..., MaxTick * Eps.
MaxTick == 4

TimePoints == {k * Eps : k \in 0..MaxTick}
\* The total duration reaches two grid steps further, and also takes the
\* values one unit (1e-7 s) after a grid point.
Durations == {k * Eps : k \in 0..(MaxTick + 2)} \cup {k * Eps + 1 : k \in 1..(MaxTick + 1)}
MinLens == {0, Eps, 2 * Eps}

\* type segment struct { start, end float64 }
segment(s, e) == [start |-> s, end |-> e]
Segments == {segment(s, e) : s \in TimePoints, e \in TimePoints}
SilenceLists == UNION {[1..n -> Segments] : n \in 0..MaxSil}

-----------------------------------------------------------------------------
(* Go slices *)

\* var s []segment
NilSlice == [isNil |-> TRUE, elems |-> <<>>]
\* make([]segment, 0)
MakeSlice == [isNil |-> FALSE, elems |-> <<>>]
\* append(s, x)
append(s, x) == [isNil |-> FALSE, elems |-> Append(s.elems, x)]

-----------------------------------------------------------------------------
(* calculateNonSilentSegments.  Go indexes from 0, TLA+ from 1:            *)
(* silences[i] of the code is silences[i + 1] here.                        *)

\* Variant: the leading candidate is kept only when strictly longer.
LeadingStep_Strict(songs, sil, lastEndTime, c) ==
    LET start == lastEndTime
        end == sil[1].start
    IN  IF (end - start) > c.MinSongLength
        THEN append(songs, segment(start, end))
        ELSE songs

\* Lines 351-355.
LeadingStep(songs, sil, lastEndTime, c) ==
    LET start == lastEndTime
        end == sil[1].start
    IN  IF (end - start) >= c.MinSongLength
        THEN append(songs, segment(start, end))
        ELSE songs

\* Variant: the middle candidate starts at the silence's start.
MiddleBody_FromStart(songs, sil, i, c) ==
    LET start == sil[i + 1].start
        end == sil[i + 2].start
    IN  IF (end - start) >= c.MinSongLength
        THEN append(songs, segment(start, end))
        ELSE songs

\* Variant: the middle candidate ends where the next silence ends.
MiddleBody_ToNextEnd(songs, sil, i, c) ==
    LET start == sil[i + 1].end
        end == sil[i + 2].end
    IN  IF (end - start) >= c.MinSongLength
        THEN append(songs, segment(start, end))
        ELSE songs

\* Variant: the middle candidate is kept only when strictly longer.
MiddleBody_Strict(songs, sil, i, c) ==
    LET start == sil[i + 1].end
        end == sil[i + 2].start
    IN  IF (end - start) > c.MinSongLength
        THEN append(songs, segment(start, end))
        ELSE songs

\* Lines 357-361: the body of the loop for one i.
MiddleBody(songs, sil, i, c) ==
    LET start == sil[i + 1].end
        end == sil[i + 2].start
    IN  IF (end - start) >= c.MinSongLength
        THEN append(songs, segment(start, end))
        ELSE songs

\* Lines 356-362: for i := 0; i < len(silences)-1; i++.
RECURSIVE MiddleLoop(_, _, _, _)
MiddleLoop(songs, sil, i, c) ==
    IF i < Len(sil) - 1
    THEN MiddleLoop(MiddleBody(songs, sil, i, c), sil, i + 1, c)
    ELSE songs

\* Variant: the trailing candidate is not held to the 0.1 guard.
TrailingStep_NoGuard(songs, sil, total, c) ==
    LET lastSilenceEnd == sil[Len(sil)].end
        start == lastSilenceEnd
        end == total
    IN  IF (end - start) >= c.MinSongLength
        THEN append(songs, segment(start, end))
        ELSE songs

\* Variant: the guards test the distance between the last silence's end and
\* the end of the recording.
TrailingStep_Distance(songs, sil, total, c) ==
    LET lastSilenceEnd == sil[Len(sil)].end
        start == lastSilenceEnd
        end == total
        dist == IF end >= start THEN end - start ELSE start - end
    IN  IF dist > Eps /\ dist >= c.MinSongLength
        THEN append(songs, segment(start, end))
        ELSE songs

\* Variant: the 0.1 guard is not strict.
TrailingStep_GuardNotStrict(songs, sil, total, c) ==
    LET lastSilenceEnd == sil[Len(sil)].end
        start == lastSilenceEnd
        end == total
    IN  IF (end - start) >= Eps /\ (end - start) >= c.MinSongLength
        THEN append(songs, segment(start, end))
        ELSE songs

\* Variant: start is not reassigned, it is still the start of the recording.
TrailingStep_StaleStart(songs, sil, total, c) ==
    LET start == 0
        end == total
    IN  IF (end - start) > Eps /\ (end - start) >= c.MinSongLength
        THEN append(songs, segment(start, end))
        ELSE songs

\* Variant: the trailing candidate starts at the first silence's end.
TrailingStep_FirstSilence(songs, sil, total, c) ==
    LET lastSilenceEnd == sil[1].end
        start == lastSilenceEnd
        end == total
    IN  IF (end - start) > Eps /\ (end - start) >= c.MinSongLength
        THEN append(songs, segment(start, end))
        ELSE songs

\* Lines 363-368.
TrailingStep(songs, sil, total, c) ==
    LET lastSilenceEnd == sil[Len(sil)].end
        start == lastSilenceEnd
        end == total
    IN  IF (end - start) > Eps /\ (end - start) >= c.MinSongLength
        THEN append(songs, segment(start, end))
        ELSE songs

\* Variant: the whole-file fallback of the caller is folded into the function.
calculateNonSilentSegments_WholeFile(sil, total, c) ==
    IF Len(sil) = 0
    THEN IF total >= c.MinSongLength
         THEN append(MakeSlice, segment(0, total))
         ELSE MakeSlice
    ELSE TrailingStep(MiddleLoop(LeadingStep(MakeSlice, sil, 0, c), sil, 0, c),
                      sil, total, c)

\* Variant: the trailing block sits inside the loop as well.
RECURSIVE LoopWithTrailing(_, _, _, _, _)
LoopWithTrailing(songs, sil, i, total, c) ==
    IF i < Len(sil) - 1
    THEN LoopWithTrailing(
             TrailingStep(MiddleBody(songs, sil, i, c), sil, total, c),
             sil, i + 1, total, c)
    ELSE songs

calculateNonSilentSegments_TrailingInLoop(sil, total, c) ==
    IF Len(sil) = 0
    THEN MakeSlice
    ELSE TrailingStep(
             LoopWithTrailing(LeadingStep(MakeSlice, sil, 0, c), sil, 0, total, c),
             sil, total, c)

\* Lines 344-370.
calculateNonSilentSegments(sil, total, c) ==
    LET songSegments0 == MakeSlice
        lastEndTime == 0
    IN  IF Len(sil) = 0
        THEN songSegments0
        ELSE LET afterLeading == LeadingStep(songSegments0, sil, lastEndTime, c)
                 afterMiddle == MiddleLoop(afterLeading, sil, 0, c)
             IN  TrailingStep(afterMiddle, sil, total, c)

-----------------------------------------------------------------------------
(* The segment deriver applied to every input of the bounded domain. *)

\* The values of the variables a specification does not use.
ConfigIdle == flags = <<>> /\ file = <<>>
NoDisk == [dir |-> FALSE, files |-> {}]
Unread == [status |-> "unread", lines |-> <<>>]
NoOutput == [starts |-> <<>>, ends |-> <<>>]
RunIdle ==
    /\ exportedFiles = NilSlice
    /\ disk = NoDisk
    /\ setlist = Unread
    /\ stderr = NoOutput
    /\ calls = <<>>

\* An external command, file operation or warning of the program, with the
\* files and segments it is about and its result.
Event(op, files, segs, ok) == [op |-> op, files |-> files, segs |-> segs, ok |-> ok]

DeriverInit ==
    /\ silences \in SilenceLists
    /\ totalDuration \in Durations
    /\ cfg \in [MinSongLength : MinLens]
    /\ songSegments = NilSlice
    /\ pc = "call"
    /\ prev = NilSlice
    /\ ConfigIdle
    /\ RunIdle

\* Variant: the call consumes the first silence (the input list is modified
\* in place).
Derive_ConsumesInput ==
    /\ pc = "call"
    /\ songSegments' = calculateNonSilentSegments(silences, totalDuration, cfg)
    /\ silences' = IF Len(silences) > 0 THEN Tail(silences) ELSE silences
    /\ pc' = "return"
    /\ UNCHANGED <<totalDuration, cfg, prev, configVars, runVars>>

Derive ==
    /\ pc = "call"
    /\ songSegments' = calculateNonSilentSegments(silences, totalDuration, cfg)
    /\ pc' = "return"
    /\ UNCHANGED <<silences, totalDuration, cfg, prev, configVars, runVars>>

DeriverNext == Derive

SpecDeriver == DeriverInit /\ [][DeriverNext]_vars

\* A second call with the arguments as the first call left them.  The
\* function reads its parameters only and writes none of them (cfg is passed
\* by value, no element of silences is assigned).
DeriveAgain ==
    /\ pc = "return"
    /\ prev' = songSegments
    /\ songSegments' = calculateNonSilentSegments(silences, totalDuration, cfg)
    /\ pc' = "return again"
    /\ UNCHANGED <<silences, totalDuration, cfg, configVars, runVars>>

TwiceNext == Derive \/ DeriveAgain

SpecTwice == DeriverInit /\ [][TwiceNext]_vars

-----------------------------------------------------------------------------
(* Configuration: defaults, config file, CLI flags.                        *)
(* Durations of the configuration are in the time unit of the model.       *)

Second == 10 * Eps

\* Largest number of keys the config file gives.
MaxFileKeys == 2
\* Largest number of flags the user sets.
MaxFlags == 1

\* The fields of Config with their JSON keys (lines 19-30) and their flags
\* (lines 69-79).
Fields == {"InputFile", "MinSilenceDur", "SilenceThreshold", "MinSongLength",
           "OutputPrefix", "OutputDir", "UploadToDrive", "RcloneRemote",
           "DriveSubfolder", "SetlistFile"}

JsonKey(f) ==
    CASE f = "InputFile" -> "input_file"
      [] f = "MinSilenceDur" -> "min_silence_duration"
      [] f = "SilenceThreshold" -> "silence_threshold"
      [] f = "MinSongLength" -> "min_song_length"
      [] f = "OutputPrefix" -> "output_prefix"
      [] f = "OutputDir" -> "output_dir"
      [] f = "UploadToDrive" -> "upload_to_drive"
      [] f = "RcloneRemote" -> "rclone_remote"
      [] f = "DriveSubfolder" -> "drive_subfolder"
      [] f = "SetlistFile" -> "setlist_file"

FlagName(f) ==
    CASE f = "InputFile" -> "input"
      [] f = "MinSilenceDur" -> "duration"
      [] f = "SilenceThreshold" -> "threshold"
      [] f = "MinSongLength" -> "minsonglength"
      [] f = "OutputPrefix" -> "prefix"
      [] f = "OutputDir" -> "output"
      [] f = "UploadToDrive" -> "upload"
      [] f = "RcloneRemote" -> "remote"
      [] f = "DriveSubfolder" -> "subfolder"
      [] f = "SetlistFile" -> "setlist"

JsonKeys == {JsonKey(f) : f \in Fields}
FlagNames == {FlagName(f) : f \in Fields}

\* Lines 39-50.
defaultConfig ==
    [InputFile |-> "practice_session.mp4",
     MinSilenceDur |-> 2 * Second,
     SilenceThreshold |-> "-12dB",
     MinSongLength |-> 200 * Second,
     OutputPrefix |-> "Song",
     OutputDir |-> "output",
     UploadToDrive |-> FALSE,
     RcloneRemote |-> "gdrive:",
     DriveSubfolder |-> "SplitSongs",
     SetlistFile |-> ""]

\* The zero value of Config (var fileConfig Config, line 167).
zeroConfig ==
    [InputFile |-> "",
     MinSilenceDur |-> 0,
     SilenceThreshold |-> "",
     MinSongLength |-> 0,
     OutputPrefix |-> "",
     OutputDir |-> "",
     UploadToDrive |-> FALSE,
     RcloneRemote |-> "",
     DriveSubfolder |-> "",
     SetlistFile |-> ""]

\* A value other than the zero value and the default that the config file
\* gives a field, and one that a flag gives it.
fileValues ==
    [InputFile |-> "file_video.mp4",
     MinSilenceDur |-> 8 * Second,
     SilenceThreshold |-> "-22dB",
     MinSongLength |-> 90 * Second,
     OutputPrefix |-> "FileSong",
     OutputDir |-> "file_out",
     UploadToDrive |-> TRUE,
     RcloneRemote |-> "fileremote:",
     DriveSubfolder |-> "FileFolder",
     SetlistFile |-> "file_setlist.txt"]

cliValues ==
    [InputFile |-> "cli_video.mp4",
     MinSilenceDur |-> 3 * Second,
     SilenceThreshold |-> "-18dB",
     MinSongLength |-> 60 * Second,
     OutputPrefix |-> "CliSong",
     OutputDir |-> "cli_out",
     UploadToDrive |-> TRUE,
     RcloneRemote |-> "cliremote:",
     DriveSubfolder |-> "CLIFolder",
     SetlistFile |-> "cli_setlist.txt"]

\* The functions that give at most `most` of the fields a value: the zero
\* value of the field's type for the fields in z, the value of `given` else.
\* `name` is JsonKey or FlagName.
Assignments(name(_), given, most) ==
    UNION {{[k \in {name(f) : f \in S} |->
                LET f == CHOOSE g \in S : name(g) = k
                IN  IF f \in z THEN zeroConfig[f] ELSE given[f]]
            : z \in SUBSET S}
           : S \in {T \in SUBSET Fields : Cardinality(T) <= most}}

\* The config file: absent, unparsable (with the keys decoded before the
\* error), or parsed.
ConfigFiles ==
    {[status |-> "absent", keys |-> <<>>]}
    \cup {[status |-> s, keys |-> k] :
            s \in {"unparsable", "ok"}, k \in Assignments(JsonKey, fileValues, MaxFileKeys)}

\* Lines 166-177: the file's keys decoded onto the zero Config by their json
\* tags, and the error.
Unmarshal(keys) ==
    [f \in Fields |->
        IF JsonKey(f) \in DOMAIN keys THEN keys[JsonKey(f)] ELSE zeroConfig[f]]

loadConfigFromFile(fl) ==
    CASE fl.status = "absent" -> [fileConfig |-> zeroConfig, err |-> "not exist"]
      [] fl.status = "unparsable" -> [fileConfig |-> Unmarshal(fl.keys), err |-> "syntax"]
      [] fl.status = "ok" -> [fileConfig |-> Unmarshal(fl.keys), err |-> "nil"]

\* Lines 91-120: a field of the file replaces the default unless it holds the
\* zero value of its type.
MergeFile(c, fileConfig) ==
    [f \in Fields |->
        IF fileConfig[f] # zeroConfig[f] THEN fileConfig[f] ELSE c[f]]

\* Lines 69-79: the variable of a flag holds the flag's value if the flag was
\* given and the default otherwise.
cliVariable(fl, f) ==
    IF FlagName(f) \in DOMAIN fl THEN fl[FlagName(f)] ELSE defaultConfig[f]

\* Lines 126-129: flag.Visit visits the flags that were set.
userSetFlags(fl) == [nm \in FlagNames |-> nm \in DOMAIN fl]

\* Variant: a flag replaces the value only when it is not the zero value,
\* as the file merge does.
OverrideFlags_NonZeroOnly(c, fl) ==
    [f \in Fields |->
        IF userSetFlags(fl)[FlagName(f)] /\ cliVariable(fl, f) # zeroConfig[f]
        THEN cliVariable(fl, f)
        ELSE c[f]]

\* Lines 131-160.
OverrideFlags(c, fl) ==
    [f \in Fields |->
        IF userSetFlags(fl)[FlagName(f)] THEN cliVariable(fl, f) ELSE c[f]]

\* Variant: what was decoded of the file is merged also when loading it
\* ended with an error.
loadConfig_MergeOnError(fl, flg) ==
    LET loaded == loadConfigFromFile(fl)
    IN  [cfg |-> OverrideFlags(MergeFile(defaultConfig, loaded.fileConfig), flg),
         err |-> "nil",
         warned |-> loaded.err \notin {"nil", "not exist"}]

\* Lines 83-163.  The result and whether the warning of line 122 is logged.
loadConfig(fl, flg) ==
    LET loaded == loadConfigFromFile(fl)
        merged == IF loaded.err = "nil"
                  THEN MergeFile(defaultConfig, loaded.fileConfig)
                  ELSE defaultConfig
    IN  [cfg |-> OverrideFlags(merged, flg),
         err |-> "nil",
         warned |-> loaded.err \notin {"nil", "not exist"}]

ConfigInit ==
    /\ file \in ConfigFiles
    /\ flags \in Assignments(FlagName, cliValues, MaxFlags)
    /\ cfg = zeroConfig
    /\ pc = "loadConfig"
    /\ silences = <<>>
    /\ totalDuration = 0
    /\ songSegments = NilSlice
    /\ prev = NilSlice
    /\ RunIdle

\* Lines 185-190 of main: the call of loadConfig.
LoadConfig ==
    /\ pc = "loadConfig"
    /\ LET r == loadConfig(file, flags)
       IN  /\ cfg' = r.cfg
           /\ calls' = IF r.warned
                       THEN Append(calls, Event("warning", <<>>, <<>>, TRUE))
                       ELSE calls
           /\ pc' = IF r.err = "nil" THEN "configured" ELSE "fatal"
    /\ UNCHANGED <<silences, totalDuration, songSegments, prev, configVars,
                   exportedFiles, disk, setlist, stderr>>

ConfigNext == LoadConfig

SpecConfig == ConfigInit /\ [][ConfigNext]_vars

-----------------------------------------------------------------------------
(* Strings and file names.  A string the program takes apart or builds is   *)
(* a sequence of characters; a path is the record of its parts.            *)

Digits == <<"0", "1", "2", "3", "4", "5", "6", "7", "8", "9">>

RECURSIVE Decimal(_)
Decimal(i) ==
    IF i < 10 THEN <<Digits[i + 1]>> ELSE Decimal(i \div 10) \o <<Digits[(i % 10) + 1]>>

\* fmt "%02d".
Pad2(i) == IF i < 10 THEN <<"0">> \o Decimal(i) ELSE Decimal(i)

\* filepath.Ext of the input files of the model.
filepathExt(path) ==
    CASE path \in {"practice_session.mp4", "file_video.mp4", "cli_video.mp4"} -> ".mp4"
      [] OTHER -> ""

\* Line 383: "%s/%s_%02d%s".
outputFilename(c, i, fileExt) ==
    [dir |-> c.OutputDir, form |-> "%s_%02d%s", stem |-> c.OutputPrefix,
     nn |-> Pad2(i + 1), ext |-> fileExt]

WhiteSpace == {" ", "\t"}
WordChars == {"R", "e", "b", "a", "A", "B", "_"}

RECURSIVE TrimLeft(_)
TrimLeft(s) == IF s # <<>> /\ Head(s) \in WhiteSpace THEN TrimLeft(Tail(s)) ELSE s

RECURSIVE TrimRight(_)
TrimRight(s) ==
    IF s # <<>> /\ s[Len(s)] \in WhiteSpace
    THEN TrimRight(SubSeq(s, 1, Len(s) - 1))
    ELSE s

\* Lines 423-436.
sanitizeFilename(name) ==
    LET trimmed == TrimRight(TrimLeft(name))
        valid(ch) == ch \in WordChars \cup WhiteSpace \cup {"-"}
        kept == SelectSeq(trimmed, valid)
        replaced == [k \in 1..Len(kept) |-> IF kept[k] = " " THEN "_" ELSE kept[k]]
    IN  IF replaced = <<>>
        THEN <<"U", "n", "t", "i", "t", "l", "e", "d", "_", "S", "o", "n", "g">>
        ELSE replaced

\* Lines 482-489: "%02d - %s%s" in the directory of the old path.
newFilePath(oldFilePath, i, title) ==
    [dir |-> oldFilePath.dir, form |-> "%02d - %s%s", stem |-> sanitizeFilename(title),
     nn |-> Pad2(i + 1), ext |-> oldFilePath.ext]

-----------------------------------------------------------------------------
(* The stages of main that run external tools.                             *)

\* Largest number of lines of the setlist file.  The file cannot be opened
\* ("missing"), fails while it is read ("read error", after the lines
\* given), or is read to its end ("ok").
MaxLines == 2

Reba == <<"R", "e", "b", "a">>
\* An empty line, a title, a title to sanitize, a line of one space.
SetlistLines == {<<>>, Reba, <<" ", "A", "'", " ", "B", " ">>, <<" ">>}
SetlistFiles ==
    {[status |-> "missing", lines |-> <<>>], [status |-> "read error", lines |-> <<Reba>>]}
    \cup {[status |-> "ok", lines |-> l] :
            l \in UNION {[1..k -> SetlistLines] : k \in 0..MaxLines}}

\* Lines 310-323: the duration from the fields of the first
\* "Duration: HH:MM:SS.hh" of ffmpeg's output (<<>> when there is none).
\* found is false where the program stops at line 316.
getVideoDuration(matches) ==
    IF Len(matches) < 4
    THEN [found |-> FALSE, duration |-> 0]
    ELSE [found |-> TRUE,
          duration |-> ((matches[1] * 3600 + matches[2] * 60 + matches[3]) * 100
                        + matches[4]) * (Second \div 100)]

\* Lines 334-340: the i-th silence_start with the i-th silence_end.
RECURSIVE PairMarkers(_, _, _, _)
PairMarkers(acc, startMatches, endMatches, i) ==
    IF i < Len(startMatches) /\ i < Len(endMatches)
    THEN PairMarkers(Append(acc, segment(startMatches[i + 1], endMatches[i + 1])),
                     startMatches, endMatches, i + 1)
    ELSE acc

\* Variant: markers are paired only when there are as many silence_end as
\* silence_start markers.
detectSilentSegments_RequireEqualCounts(output) ==
    IF Len(output.starts) = Len(output.ends)
    THEN PairMarkers(<<>>, output.starts, output.ends, 0)
    ELSE <<>>

\* Lines 326-341.  The error of the ffmpeg run is dropped (line 329).
detectSilentSegments(output) == PairMarkers(<<>>, output.starts, output.ends, 0)

\* Variant: a failed export is tried a second time.
RECURSIVE ExportLoop_RetryOnce(_, _, _, _, _, _)
ExportLoop_RetryOnce(st, c, segments, fileExt, outcomes, i) ==
    IF i < Len(segments)
    THEN LET name == outputFilename(c, i, fileExt)
             ok == outcomes[i + 1]
             ev == Event("ffmpeg export", <<name>>, <<segments[i + 1]>>, ok)
         IN  ExportLoop_RetryOnce(
                 [exported |-> IF ok THEN append(st.exported, name) ELSE st.exported,
                  disk |-> IF ok
                           THEN [st.disk EXCEPT !.files = @ \cup {name}]
                           ELSE st.disk,
                  calls |-> IF ok THEN Append(st.calls, ev) ELSE st.calls \o <<ev, ev>>],
                 c, segments, fileExt, outcomes, i + 1)
    ELSE st

\* Variant: the first failed export ends the batch.
RECURSIVE ExportLoop_StopAtFailure(_, _, _, _, _, _)
ExportLoop_StopAtFailure(st, c, segments, fileExt, outcomes, i) ==
    IF i < Len(segments)
    THEN LET name == outputFilename(c, i, fileExt)
             ok == outcomes[i + 1]
             ev == Event("ffmpeg export", <<name>>, <<segments[i + 1]>>, ok)
         IN  IF ok
             THEN ExportLoop_StopAtFailure(
                      [exported |-> append(st.exported, name),
                       disk |-> [st.disk EXCEPT !.files = @ \cup {name}],
                       calls |-> Append(st.calls, ev)],
                      c, segments, fileExt, outcomes, i + 1)
             ELSE [st EXCEPT !.calls = Append(@, ev)]
    ELSE st

\* Lines 382-401: the loop from segment i on.  outcomes[i + 1] tells whether
\* the ffmpeg run of segment i succeeds.
RECURSIVE ExportLoop(_, _, _, _, _, _)
ExportLoop(st, c, segments, fileExt, outcomes, i) ==
    IF i < Len(segments)
    THEN LET name == outputFilename(c, i, fileExt)
             ok == outcomes[i + 1]
             ev == Event("ffmpeg export", <<name>>, <<segments[i + 1]>>, ok)
         IN  ExportLoop(
                 [exported |-> IF ok THEN append(st.exported, name) ELSE st.exported,
                  disk |-> IF ok
                           THEN [st.disk EXCEPT !.files = @ \cup {name}]
                           ELSE st.disk,
                  calls |-> Append(st.calls, ev)],
                 c, segments, fileExt, outcomes, i + 1)
    ELSE st

\* Lines 374-403.  mkdirOk tells whether os.Mkdir succeeds when it is called.
splitVideoIntoSegments(c, segments, dsk, log, mkdirOk, outcomes) ==
    LET made == ~dsk.dir
        dsk1 == IF made THEN [dsk EXCEPT !.dir = mkdirOk] ELSE dsk
        log1 == IF made THEN Append(log, Event("mkdir", <<>>, <<>>, mkdirOk)) ELSE log
        fileExt == filepathExt(c.InputFile)
    IN  ExportLoop([exported |-> MakeSlice, disk |-> dsk1, calls |-> log1],
                   c, segments, fileExt, outcomes, 0)

\* Variant: every line of the file is a title.
songTitlesOf_KeepBlank(lines) == lines

\* Lines 452-460: the lines of the file that are not empty.
songTitlesOf(lines) == SelectSeq(lines, LAMBDA l : l # <<>>)

\* Variant: the first failed rename ends the loop.
RECURSIVE RenameLoop_StopAtFailure(_, _, _, _, _)
RenameLoop_StopAtFailure(st, files, songTitles, outcomes, i) ==
    IF i < Len(files) /\ ~(i >= Len(songTitles))
    THEN LET old == files[i + 1]
             new == newFilePath(old, i, songTitles[i + 1])
             ok == outcomes[i + 1]
             logged == Append(st.calls, Event("rename", <<old, new>>, <<>>, ok))
         IN  IF ok
             THEN RenameLoop_StopAtFailure(
                      [disk |-> [st.disk EXCEPT !.files = (@ \ {old}) \cup {new}],
                       calls |-> logged],
                      files, songTitles, outcomes, i + 1)
             ELSE [st EXCEPT !.calls = logged]
    ELSE st

\* Lines 476-498: the loop from file i on.  outcomes[i + 1] tells whether the
\* os.Rename of file i succeeds.
RECURSIVE RenameLoop(_, _, _, _, _)
RenameLoop(st, files, songTitles, outcomes, i) ==
    IF i < Len(files) /\ ~(i >= Len(songTitles))
    THEN LET old == files[i + 1]
             new == newFilePath(old, i, songTitles[i + 1])
             ok == outcomes[i + 1]
         IN  RenameLoop(
                 [disk |-> IF ok
                           THEN [st.disk EXCEPT !.files = (@ \ {old}) \cup {new}]
                           ELSE st.disk,
                  calls |-> Append(st.calls, Event("rename", <<old, new>>, <<>>, ok))],
                 files, songTitles, outcomes, i + 1)
    ELSE st

\* Variant: after a read error the titles read so far are used.
renameFilesFromSetlist_KeepTitlesOnError(c, files, sl, dsk, log, outcomes) ==
    LET opened == Append(log, Event("open setlist", <<>>, <<>>, sl.status # "missing"))
    IN  IF sl.status = "missing"
        THEN [disk |-> dsk, calls |-> opened]
        ELSE IF sl.status = "read error"
        THEN RenameLoop([disk |-> dsk, calls |-> opened], files.elems,
                        songTitlesOf(sl.lines), [k \in 1..Len(files.elems) |-> TRUE], 0)
        ELSE RenameLoop([disk |-> dsk, calls |-> opened], files.elems,
                        songTitlesOf(sl.lines), outcomes, 0)

\* Lines 440-500.
renameFilesFromSetlist(c, files, sl, dsk, log, outcomes) ==
    LET opened == Append(log, Event("open setlist", <<>>, <<>>, sl.status # "missing"))
    IN  IF sl.status = "missing"
        THEN [disk |-> dsk, calls |-> opened]
        ELSE IF sl.status = "read error"
        THEN [disk |-> dsk, calls |-> opened]
        ELSE RenameLoop([disk |-> dsk, calls |-> opened], files.elems,
                        songTitlesOf(sl.lines), outcomes, 0)

\* Lines 406-419.
uploadToDrive(c, log, ok) == Append(log, Event("rclone copy", <<>>, <<>>, ok))

\* Marker times of the detector lie on the grid 0, Eps, ..., MaxMark * Eps.
MaxMark == 2
MarkPoints == {k * Eps : k \in 0..MaxMark}

RECURSIVE Ascending(_)
Ascending(S) ==
    IF S = {} THEN <<>>
    ELSE LET m == CHOOSE x \in S : \A y \in S : x <= y
         IN  <<m>> \o Ascending(S \ {m})

Odd(s) == [k \in 1..((Len(s) + 1) \div 2) |-> s[2 * k - 1]]
Even(s) == [k \in 1..(Len(s) \div 2) |-> s[2 * k]]

\* What the silencedetect run prints: alternating silence_start and
\* silence_end markers at increasing times, the last silence_start possibly
\* without its silence_end.
DetectorOutputs ==
    {[starts |-> Odd(Ascending(S)), ends |-> Even(Ascending(S))] :
        S \in {T \in SUBSET MarkPoints : Cardinality(T) <= 2 * MaxSil}}

\* The fields HH, MM, SS, hh of the Duration line ffmpeg prints, or <<>> when
\* it prints none.  The recordings of the model are shorter than an hour.
DurationOutputs ==
    {<<>>, <<0, 1, 1, 1>>}
    \cup {<<0, 0, 0, 10 * k>> : k \in 0..(MaxMark + 1)}

\* Any silence_start values and any silence_end values, each list in the order
\* of the output and at most MaxSil long.
MarkerLists == UNION {[1..k -> MarkPoints] : k \in 0..MaxSil}
AnyOutputs == {[starts |-> s, ends |-> e] : s \in MarkerLists, e \in MarkerLists}

\* detectSilentSegments applied to every output of the bounded domain.
DetectInit ==
    /\ stderr \in AnyOutputs
    /\ pc = "detect"
    /\ silences = <<>>
    /\ totalDuration = 0
    /\ cfg = defaultConfig
    /\ songSegments = NilSlice
    /\ exportedFiles = NilSlice
    /\ disk = NoDisk
    /\ setlist = Unread
    /\ calls = <<>>
    /\ prev = NilSlice
    /\ ConfigIdle

Detect ==
    /\ pc = "detect"
    /\ silences' = detectSilentSegments(stderr)
    /\ pc' = "detected"
    /\ UNCHANGED <<totalDuration, cfg, songSegments, prev, configVars,
                   exportedFiles, disk, setlist, stderr, calls>>

DetectNext == Detect

SpecDetect == DetectInit /\ [][DetectNext]_vars

MainMinLens == {Eps, 2 * Eps}
MainConfigs ==
    {[defaultConfig EXCEPT !.UploadToDrive = u, !.SetlistFile = s, !.MinSongLength = m] :
        u \in BOOLEAN, s \in {"", cliValues.SetlistFile}, m \in MainMinLens}

\* The state at line 195 of main, after loadConfig returned.
MainInit ==
    /\ cfg \in MainConfigs
    /\ disk \in {[dir |-> d, files |-> {}] : d \in BOOLEAN}
    /\ pc = "precheck"
    /\ silences = <<>>
    /\ totalDuration = 0
    /\ songSegments = NilSlice
    /\ exportedFiles = NilSlice
    /\ setlist = Unread
    /\ stderr = NoOutput
    /\ calls = <<>>
    /\ prev = NilSlice
    /\ ConfigIdle

\* Variant: a failed pre-check is reported and the run goes on.
RclonePreCheck_WarnOnly ==
    /\ pc = "precheck"
    /\ IF cfg.UploadToDrive
       THEN \E installed \in BOOLEAN, connected \in BOOLEAN :
              LET version == Append(calls, Event("rclone version", <<>>, <<>>, installed))
              IN  calls' = IF installed
                           THEN Append(version, Event("rclone mkdir", <<>>, <<>>, connected))
                           ELSE version
       ELSE calls' = calls
    /\ pc' = "ffmpeg"
    /\ UNCHANGED <<silences, totalDuration, cfg, songSegments, prev, configVars,
                   exportedFiles, disk, setlist, stderr>>

\* Lines 195-206.
RclonePreCheck ==
    /\ pc = "precheck"
    /\ IF cfg.UploadToDrive
       THEN \E installed \in BOOLEAN, connected \in BOOLEAN :
              LET version == Append(calls, Event("rclone version", <<>>, <<>>, installed))
              IN  /\ calls' = IF installed
                              THEN Append(version, Event("rclone mkdir", <<>>, <<>>, connected))
                              ELSE version
                  /\ pc' = IF installed /\ connected THEN "ffmpeg" ELSE "fatal"
       ELSE /\ calls' = calls
            /\ pc' = "ffmpeg"
    /\ UNCHANGED <<silences, totalDuration, cfg, songSegments, prev, configVars,
                   exportedFiles, disk, setlist, stderr>>

\* Lines 208-211.
CheckFFmpeg ==
    /\ pc = "ffmpeg"
    /\ \E installed \in BOOLEAN :
         /\ calls' = Append(calls, Event("ffmpeg -version", <<>>, <<>>, installed))
         /\ pc' = IF installed THEN "input" ELSE "fatal"
    /\ UNCHANGED <<silences, totalDuration, cfg, songSegments, prev, configVars,
                   exportedFiles, disk, setlist, stderr>>

\* Lines 213-216.
CheckInputFile ==
    /\ pc = "input"
    /\ \E exists \in BOOLEAN :
         /\ calls' = Append(calls, Event("stat input", <<>>, <<>>, exists))
         /\ pc' = IF exists THEN "duration" ELSE "fatal"
    /\ UNCHANGED <<silences, totalDuration, cfg, songSegments, prev, configVars,
                   exportedFiles, disk, setlist, stderr>>

\* Variant: an unparsable duration counts as zero and the run goes on.
GetVideoDuration_ZeroOnFailure ==
    /\ pc = "duration"
    /\ \E matches \in DurationOutputs :
         LET r == getVideoDuration(matches)
         IN  /\ calls' = Append(calls, Event("ffmpeg duration", <<>>, <<>>, r.found))
             /\ totalDuration' = r.duration
             /\ pc' = "detect"
    /\ UNCHANGED <<silences, cfg, songSegments, prev, configVars,
                   exportedFiles, disk, setlist, stderr>>

\* Lines 218-220.
GetVideoDuration ==
    /\ pc = "duration"
    /\ \E matches \in DurationOutputs :
         LET r == getVideoDuration(matches)
         IN  /\ calls' = Append(calls, Event("ffmpeg duration", <<>>, <<>>, r.found))
             /\ totalDuration' = r.duration
             /\ pc' = IF r.found THEN "detect" ELSE "fatal"
    /\ UNCHANGED <<silences, cfg, songSegments, prev, configVars,
                   exportedFiles, disk, setlist, stderr>>

\* Variant: a failed silencedetect run ends the program.
DetectSilence_FatalOnError ==
    /\ pc = "detect"
    /\ \E printed \in DetectorOutputs, ok \in BOOLEAN :
         /\ stderr' = printed
         /\ silences' = IF ok THEN detectSilentSegments(printed) ELSE silences
         /\ calls' = Append(calls, Event("ffmpeg silencedetect", <<>>, <<>>, ok))
         /\ pc' = IF ok THEN "segments" ELSE "fatal"
    /\ UNCHANGED <<totalDuration, cfg, songSegments, prev, configVars,
                   exportedFiles, disk, setlist>>

\* Lines 222-223.  The ffmpeg run succeeds or fails, having printed the
\* markers it found until then; its error is dropped (line 329).
DetectSilence ==
    /\ pc = "detect"
    /\ \E printed \in DetectorOutputs, ok \in BOOLEAN :
         /\ stderr' = printed
         /\ silences' = detectSilentSegments(printed)
         /\ calls' = Append(calls, Event("ffmpeg silencedetect", <<>>, <<>>, ok))
    /\ pc' = "segments"
    /\ UNCHANGED <<totalDuration, cfg, songSegments, prev, configVars,
                   exportedFiles, disk, setlist>>

\* Lines 225-235 with the whole-file fallback taken whenever the derived
\* list is empty.
mainSegments_FallbackOnEmptyResult(sil, total, c) ==
    LET derived == calculateNonSilentSegments(sil, total, c)
    IN  IF Len(derived.elems) = 0 /\ total >= c.MinSongLength
        THEN [isNil |-> FALSE, elems |-> <<segment(0, total)>>]
        ELSE derived

\* Lines 225-235: the list of segments main goes on with.
mainSegments(sil, total, c) ==
    LET derived == calculateNonSilentSegments(sil, total, c)
    IN  IF Len(sil) = 0 /\ total >= c.MinSongLength
        THEN [isNil |-> FALSE, elems |-> <<segment(0, total)>>]
        ELSE derived

CalculateSegments ==
    /\ pc = "segments"
    /\ songSegments' = mainSegments(silences, totalDuration, cfg)
    /\ pc' = "export"
    /\ UNCHANGED <<silences, totalDuration, cfg, prev, configVars, runVars>>

\* Lines 237-244.  No export succeeds when the output directory is missing.
Export ==
    /\ pc = "export"
    /\ IF Len(songSegments.elems) = 0
       THEN UNCHANGED <<exportedFiles, disk, calls>>
       ELSE \E mkdirOk \in BOOLEAN, outcomes \in [1..Len(songSegments.elems) -> BOOLEAN] :
              LET r == splitVideoIntoSegments(cfg, songSegments.elems, disk, calls,
                                              mkdirOk, outcomes)
              IN  /\ disk.dir => mkdirOk
                  /\ ~r.disk.dir => \A k \in DOMAIN outcomes : ~outcomes[k]
                  /\ exportedFiles' = r.exported
                  /\ disk' = r.disk
                  /\ calls' = r.calls
    /\ pc' = "rename"
    /\ UNCHANGED <<silences, totalDuration, cfg, songSegments, prev, configVars, setlist,
                   stderr>>

\* The number of os.Rename calls of renameFilesFromSetlist.
renameCount(files, sl) ==
    LET titles == Len(songTitlesOf(sl.lines))
    IN  IF sl.status # "ok" THEN 0
        ELSE IF Len(files.elems) < titles THEN Len(files.elems) ELSE titles

\* Lines 246-253.
Rename ==
    /\ pc = "rename"
    /\ IF cfg.SetlistFile # "" /\ Len(exportedFiles.elems) > 0
       THEN \E sl \in SetlistFiles :
            \E outcomes \in [1..renameCount(exportedFiles, sl) -> BOOLEAN] :
              LET r == renameFilesFromSetlist(cfg, exportedFiles, sl, disk, calls, outcomes)
              IN  /\ setlist' = sl
                  /\ disk' = r.disk
                  /\ calls' = r.calls
       ELSE UNCHANGED <<setlist, disk, calls>>
    /\ pc' = "upload"
    /\ UNCHANGED <<silences, totalDuration, cfg, songSegments, prev, configVars,
                   exportedFiles, stderr>>

\* Variant: a failed upload ends the run with a failure.
Upload_FatalOnFailure ==
    /\ pc = "upload"
    /\ IF cfg.UploadToDrive /\ disk.dir
       THEN \E ok \in BOOLEAN :
              /\ calls' = uploadToDrive(cfg, calls, ok)
              /\ pc' = IF ok THEN "done" ELSE "fatal"
       ELSE /\ calls' = calls
            /\ pc' = "done"
    /\ UNCHANGED <<silences, totalDuration, cfg, songSegments, prev, configVars,
                   exportedFiles, disk, setlist, stderr>>

\* Lines 255-264.
Upload ==
    /\ pc = "upload"
    /\ IF cfg.UploadToDrive /\ disk.dir
       THEN \E ok \in BOOLEAN : calls' = uploadToDrive(cfg, calls, ok)
       ELSE calls' = calls
    /\ pc' = "done"
    /\ UNCHANGED <<silences, totalDuration, cfg, songSegments, prev, configVars,
                   exportedFiles, disk, setlist, stderr>>

MainNext ==
    \/ RclonePreCheck
    \/ CheckFFmpeg
    \/ CheckInputFile
    \/ GetVideoDuration
    \/ DetectSilence
    \/ CalculateSegments
    \/ Export
    \/ Rename
    \/ Upload

SpecMain == MainInit /\ [][MainNext]_vars

\* Every external call returns, so the step main is at is taken.
SpecMainFair == SpecMain /\ WF_vars(MainNext)

-----------------------------------------------------------------------------
(* Vocabulary of the properties.  The candidates are written down here     *)
(* from the input alone, independently of the operators above.             *)

Returned == pc = "return"
n == Len(silences)
out == songSegments.elems
Min == cfg.MinSongLength
SegLen(s) == s.end - s.start

LeadCand == segment(0, silences[1].start)
MidCand(i) == segment(silences[i].end, silences[i + 1].start)
TrailCand == segment(silences[n].end, totalDuration)

LeadQualifies == SegLen(LeadCand) >= Min
MidQualifies(i) == SegLen(MidCand(i)) >= Min
TrailQualifies == SegLen(TrailCand) > Eps /\ SegLen(TrailCand) >= Min

\* Number of leading and middle candidates that meet the minimum length.
NumLeadMid ==
    (IF LeadQualifies THEN 1 ELSE 0) + Cardinality({i \in 1..(n - 1) : MidQualifies(i)})

IsIn(s, seq) == \E k \in 1..Len(seq) : seq[k] = s

\* Every silence has start <= end and the starts ascend (overlap allowed).
SortedProper ==
    /\ \A i \in 1..n : silences[i].start <= silences[i].end
    /\ \A i \in 1..(n - 1) : silences[i].start <= silences[i + 1].start

\* Ascending, pairwise non-overlapping, inside the recording.
WellFormed ==
    /\ \A i \in 1..n : silences[i].start <= silences[i].end
    /\ \A i \in 1..(n - 1) : silences[i].end <= silences[i + 1].start
    /\ \A i \in 1..n : silences[i].end <= totalDuration

AscendingStarts(seq) == \A k \in 1..(Len(seq) - 1) : seq[k].start <= seq[k + 1].start
Chronological(seq) == \A k \in 1..(Len(seq) - 1) : seq[k].end <= seq[k + 1].start

-----------------------------------------------------------------------------
\* C1: for a non-empty silence list the result is exactly the leading
\* candidate if it qualifies, then the qualifying middle candidates for
\* i = 0 .. count-2 in that order, then the trailing candidate if it is longer
\* than 0.1 and qualifies; nothing else.
C1_ExactCandidates ==
    (Returned /\ n > 0) =>
        /\ ~songSegments.isNil
        /\ out = (IF LeadQualifies THEN <<LeadCand>> ELSE <<>>)
                 \o SelectSeq([i \in 1..(n - 1) |-> MidCand(i)],
                              LAMBDA s : SegLen(s) >= Min)
                 \o (IF TrailQualifies THEN <<TrailCand>> ELSE <<>>)

\* Two silences of 0.1 s, songs before, between and after them, all kept.
C1_Witness ==
    /\ Returned
    /\ silences = <<segment(Eps, 2 * Eps), segment(3 * Eps, 4 * Eps)>>
    /\ totalDuration = 5 * Eps + 1
    /\ Min = Eps
    /\ out = <<segment(0, Eps), segment(2 * Eps, 3 * Eps), segment(4 * Eps, 5 * Eps + 1)>>

\* C2: every returned interval is at least MinSongLength long, and a
\* returned trailing interval is also longer than 0.1.
C2_MinLength ==
    Returned =>
        /\ \A k \in 1..Len(out) : SegLen(out[k]) >= Min
        /\ (n > 0 /\ Len(out) > NumLeadMid) =>
               /\ out[Len(out)] = TrailCand
               /\ SegLen(out[Len(out)]) > Eps

\* A trailing interval is returned although MinSongLength alone would also
\* admit a shorter one.
C2_Witness ==
    /\ Returned
    /\ n > 0
    /\ Min <= Eps
    /\ NumLeadMid >= 1
    /\ Len(out) = NumLeadMid + 1
    /\ out[Len(out)] = TrailCand

\* C3 as stated: for every silence list, sorted or not, the returned
\* intervals ascend by start.
C3_AscendingAnyInput == Returned => AscendingStarts(out)

\* C3 amended: when every silence has 0 <= start <= end and the starts ascend,
\* the returned intervals ascend by start.
C3_AscendingSortedInput == (Returned /\ SortedProper) => AscendingStarts(out)

\* Overlapping but sorted silences, and a result of at least two intervals.
C3_Witness ==
    /\ Returned
    /\ SortedProper
    /\ ~WellFormed
    /\ n = 2
    /\ silences[2].start < silences[1].end
    /\ Len(out) >= 2

\* C4: for a well-formed silence list the returned intervals do not overlap
\* and are chronological: each end is <= the next start.
C4_NonOverlapping == (Returned /\ WellFormed) => Chronological(out)

C4_Witness ==
    /\ Returned
    /\ WellFormed
    /\ n = 2
    /\ \A i \in 1..n : silences[i].start < silences[i].end
    /\ Len(out) = 3
    /\ \A k \in 1..Len(out) : SegLen(out[k]) > 0

\* C5: an empty silence list gives an empty, non-nil result whatever the
\* total duration and the minimum length are.
C5_EmptyInEmptyOut ==
    (Returned /\ n = 0) => (~songSegments.isNil /\ out = <<>>)

\* The whole recording would qualify as a song, and the result is empty.
C5_Witness ==
    /\ Returned
    /\ n = 0
    /\ totalDuration > Eps
    /\ totalDuration >= Min
    /\ ~songSegments.isNil
    /\ out = <<>>

\* C6: a candidate exactly MinSongLength long is retained: the leading one,
\* every middle one, and the trailing one when it is also longer than 0.1.
\* (Silences [(0.1,0.2),(0.4,0.4)], total 0.5, minimum 0.2 give [(0.2,0.4)].)
C6_ExactLengthKept ==
    (Returned /\ n > 0) =>
        /\ SegLen(LeadCand) = Min => (Len(out) >= 1 /\ out[1] = LeadCand)
        /\ \A i \in 1..(n - 1) : SegLen(MidCand(i)) = Min => IsIn(MidCand(i), out)
        /\ (SegLen(TrailCand) = Min /\ Min > Eps) =>
               (Len(out) >= 1 /\ out[Len(out)] = TrailCand)
        /\ ( /\ silences = <<segment(Eps, 2 * Eps), segment(4 * Eps, 4 * Eps)>>
             /\ totalDuration = 5 * Eps
             /\ Min = 2 * Eps ) => out = <<segment(2 * Eps, 4 * Eps)>>

\* Leading, middle and trailing candidate all exactly MinSongLength long,
\* and all three returned.
C6_Witness ==
    /\ Returned
    /\ n = 2
    /\ WellFormed
    /\ Min > Eps
    /\ SegLen(LeadCand) = Min
    /\ SegLen(MidCand(1)) = Min
    /\ SegLen(TrailCand) = Min
    /\ out = <<LeadCand, MidCand(1), TrailCand>>

\* C7: with MinSongLength = 0 a trailing candidate of exactly 0.1 s is not
\* returned and one of 0.1000001 s is; leading and middle candidates of
\* 0.1 s or less are returned all the same.
C7_TrailingGuardStrict ==
    (Returned /\ n > 0 /\ Min = 0) =>
        /\ SegLen(TrailCand) = Eps => Len(out) = NumLeadMid
        /\ SegLen(TrailCand) = Eps + 1 =>
               (Len(out) = NumLeadMid + 1 /\ out[Len(out)] = TrailCand)
        /\ SegLen(LeadCand) \in 0..Eps => (Len(out) >= 1 /\ out[1] = LeadCand)
        /\ \A i \in 1..(n - 1) : SegLen(MidCand(i)) \in 0..Eps => IsIn(MidCand(i), out)

\* A 0.1 s trailing candidate is dropped while the 0.1 s leading one is kept.
C7_Witness ==
    /\ Returned
    /\ n > 0
    /\ Min = 0
    /\ SegLen(TrailCand) = Eps
    /\ SegLen(LeadCand) = Eps
    /\ out[1] = LeadCand
    /\ out[Len(out)] # TrailCand

\* C8 as stated: with MinSongLength = 0 and a well-formed non-empty list the
\* result has exactly count(silences) + 1 intervals.
C8_AllCandidates ==
    (Returned /\ n > 0 /\ Min = 0 /\ WellFormed) => Len(out) = n + 1

\* C8 amended: with MinSongLength = 0 and a well-formed non-empty list the
\* result is the leading gap, each of the count-1 middle gaps, and the
\* trailing gap only when it is longer than 0.1: count + 1 intervals then,
\* count intervals otherwise.
C8_AllButShortTrailing ==
    (Returned /\ n > 0 /\ Min = 0 /\ WellFormed) =>
        /\ Len(out) = (IF SegLen(TrailCand) > Eps THEN n + 1 ELSE n)
        /\ out[1] = LeadCand
        /\ \A i \in 1..(n - 1) : out[i + 1] = MidCand(i)
        /\ SegLen(TrailCand) > Eps => out[n + 1] = TrailCand

\* The recording ends within 0.1 s of the last silence: count intervals.
C8_Witness ==
    /\ Returned
    /\ n = 2
    /\ Min = 0
    /\ WellFormed
    /\ SegLen(TrailCand) <= Eps
    /\ Len(out) = n

\* C9: a middle candidate of zero or negative length is never part of the
\* result, whatever MinSongLength >= 0 is.
C9_NoDegenerateMiddle ==
    Returned =>
        \A i \in 1..(n - 1) : SegLen(MidCand(i)) <= 0 => ~IsIn(MidCand(i), out)

\* C10: the result has at most count(silences) + 1 intervals.
C10_LengthBound == Returned => Len(out) <= n + 1

\* The bound is attained.
C10_Witness ==
    /\ Returned
    /\ n = 2
    /\ Len(out) = n + 1

-----------------------------------------------------------------------------
-----------------------------------------------------------------------------
(* Properties of the configuration loader. *)

Configured == pc = "configured"
FlagSet(f) == FlagName(f) \in DOMAIN flags
FileGives(f) == JsonKey(f) \in DOMAIN file.keys

\* C19: a flag that was set on the command line decides the resolved value
\* of its setting, whatever the config file and the defaults say.
C19_FlagWins ==
    Configured => \A f \in Fields : FlagSet(f) => cfg[f] = flags[FlagName(f)]

\* -upload=false against a config file that sets upload_to_drive to true.
C19_Witness ==
    /\ Configured
    /\ file.status = "ok"
    /\ FileGives("UploadToDrive")
    /\ file.keys["upload_to_drive"] = TRUE
    /\ FlagSet("UploadToDrive")
    /\ flags["upload"] = FALSE
    /\ cfg.UploadToDrive = FALSE

\* C20: with a readable config file and no flag set for a key, the value the
\* file gives the key is the resolved value, whatever value that is (0 for
\* min_song_length included); a key absent from the file keeps its default.
C20_FileOverridesDefault ==
    (Configured /\ file.status = "ok") =>
        \A f \in Fields :
            ~FlagSet(f) =>
                cfg[f] = IF FileGives(f) THEN file.keys[JsonKey(f)]
                         ELSE defaultConfig[f]

-----------------------------------------------------------------------------
(* Vocabulary of the pipeline properties.                                  *)

EventsOf(op) == SelectSeq(calls, LAMBDA e : e.op = op)
Failed(op) == \E k \in 1..Len(calls) : calls[k].op = op /\ ~calls[k].ok
Ran(op) == \E k \in 1..Len(calls) : calls[k].op = op
files == exportedFiles.elems
SegmentsDecided == pc \in {"export", "rename", "upload", "done"}
ExportDone == pc \in {"rename", "upload", "done"}
RenameDone == pc \in {"upload", "done"}

\* C12: the segment list handed to the export stage is the single segment
\* [0, totalDuration) when the detector returned no silence and
\* totalDuration >= minSongLength; when it returned none and totalDuration <
\* minSongLength the list is empty and nothing is exported; and only then is
\* the whole file taken: when it returned a silence the list is the deriver's
\* output as it is, the empty output included.
C12_SegmentsForExport ==
    SegmentsDecided =>
        /\ (n = 0 /\ totalDuration >= Min) => out = <<segment(0, totalDuration)>>
        /\ (n = 0 /\ totalDuration < Min) =>
              /\ out = <<>>
              /\ ExportDone => (files = <<>> /\ ~Ran("ffmpeg export") /\ disk.files = {})
        /\ n > 0 => songSegments = calculateNonSilentSegments(silences, totalDuration, cfg)

\* A detected silence, no segment derived from it, a recording long enough to
\* be a song: nothing is exported.
C12_Witness ==
    /\ pc = "done"
    /\ n > 0
    /\ totalDuration >= Min
    /\ out = <<>>
    /\ ~Ran("ffmpeg export")

\* C13: splitVideoIntoSegments attempts the export of every segment of its
\* input, in segment order, whatever the earlier exports did; the list it
\* returns holds the output file names of the segments whose export
\* succeeded, in segment order, and no name of a segment whose export failed.
C13_ExportAllKeepSucceeded ==
    (ExportDone /\ Len(out) > 0) =>
        LET E == EventsOf("ffmpeg export")
            S == SelectSeq(E, LAMBDA e : e.ok)
        IN  /\ Len(E) = Len(out)
            /\ \A k \in 1..Len(E) :
                 /\ E[k].segs = <<out[k]>>
                 /\ E[k].files = <<outputFilename(cfg, k - 1, ".mp4")>>
                 /\ ~E[k].ok => ~\E j \in 1..Len(files) : files[j] = E[k].files[1]
            /\ files = [k \in 1..Len(S) |-> S[k].files[1]]

\* The first of two exports failed and the second succeeded.
C13_Witness ==
    /\ ExportDone
    /\ Len(out) = 2
    /\ LET E == EventsOf("ffmpeg export")
       IN  Len(E) = 2 /\ ~E[1].ok /\ E[2].ok
    /\ Len(files) = 1
    /\ files[1].nn = <<"0", "2">>

\* The titles of the setlist: its lines that are not blank.
titles == SelectSeq(setlist.lines, LAMBDA l : l # <<>>)
Renames == EventsOf("rename")
Paired == IF Len(files) < Len(titles) THEN Len(files) ELSE Len(titles)

\* C14: renameFilesFromSetlist pairs the exported files and the non-blank
\* titles of the setlist by position: for every i below the smaller of the two
\* counts the i-th file is renamed with the i-th title; the files from the
\* count of the titles on keep their names, and the titles from the count of
\* the files on cause no rename.
C14_PositionalPairing ==
    (RenameDone /\ setlist.status = "ok") =>
        /\ Len(Renames) = Paired
        /\ \A i \in 1..Paired :
             /\ Renames[i].files[1] = files[i]
             /\ Renames[i].files[2].stem = sanitizeFilename(titles[i])
             /\ Renames[i].files[2].dir = files[i].dir
             /\ Renames[i].files[2].ext = files[i].ext
             /\ Renames[i].files[2].form = "%02d - %s%s"
             /\ IF Renames[i].ok
                THEN Renames[i].files[2] \in disk.files /\ files[i] \notin disk.files
                ELSE files[i] \in disk.files
        /\ \A i \in (Paired + 1)..Len(files) : files[i] \in disk.files
        /\ Cardinality(disk.files) = Len(files)

\* A blank line before the only title, two exported files: the first file
\* has the title's name, the second kept its own.
C14_Witness ==
    /\ RenameDone
    /\ setlist = [status |-> "ok", lines |-> <<<<>>, Reba>>]
    /\ Len(files) = 2
    /\ Len(Renames) = 1
    /\ Renames[1].ok
    /\ Renames[1].files[2].stem = Reba
    /\ files[2] \in disk.files

\* Two titles for one exported file.
C14_WitnessExcessTitles ==
    /\ RenameDone
    /\ setlist.status = "ok"
    /\ Len(titles) = 2
    /\ Len(files) = 1
    /\ Len(Renames) = 1

\* A line of one space is a title: the file is renamed to Untitled_Song.
C14_WitnessSpaceLine ==
    /\ RenameDone
    /\ setlist = [status |-> "ok", lines |-> <<<<" ">>>>]
    /\ Len(Renames) = 1
    /\ Renames[1].files[2].stem = <<"U", "n", "t", "i", "t", "l", "e", "d", "_", "S", "o", "n", "g">>

\* C15: whenever the rename step renames an exported file, the two-digit
\* index NN of the new name "NN - title.ext" is the index NN of the old name
\* "prefix_NN.ext", after any sequence of export successes and failures.
C15_IndexKept ==
    \A k \in 1..Len(calls) :
        calls[k].op = "rename" => calls[k].files[2].nn = calls[k].files[1].nn

\* The operations of the stages that follow the checks of the preconditions.
LaterOps == {"ffmpeg duration", "ffmpeg silencedetect", "mkdir", "ffmpeg export",
             "open setlist", "rename", "rclone copy"}
NoLaterStage ==
    /\ \A k \in 1..Len(calls) : calls[k].op \notin LaterOps
    /\ silences = <<>>
    /\ songSegments = NilSlice
    /\ exportedFiles = NilSlice
    /\ disk.files = {}
    /\ setlist = Unread

\* C16: with the upload enabled, when rclone is not installed or the
\* destination directory cannot be created the run aborts before the
\* duration probe, the silence detection, any export, any rename and any
\* upload; with the upload disabled neither the pre-check nor the upload copy
\* is ever run.
C16_PreCheckFirst ==
    /\ (cfg.UploadToDrive /\ (Failed("rclone version") \/ Failed("rclone mkdir"))) =>
          (pc = "fatal" /\ NoLaterStage /\ ~Ran("ffmpeg -version") /\ ~Ran("stat input"))
    /\ (cfg.UploadToDrive /\ pc # "precheck") => Ran("rclone version")
    /\ ~cfg.UploadToDrive =>
          (~Ran("rclone version") /\ ~Ran("rclone mkdir") /\ ~Ran("rclone copy"))

\* rclone is installed and the destination cannot be created.
C16_Witness ==
    /\ cfg.UploadToDrive
    /\ calls = <<Event("rclone version", <<>>, <<>>, TRUE),
                 Event("rclone mkdir", <<>>, <<>>, FALSE)>>
    /\ pc = "fatal"

\* A run without upload that exported a file and reached its end.
C16_WitnessDisabled ==
    /\ ~cfg.UploadToDrive
    /\ pc = "done"
    /\ Len(files) > 0

FatalOps == {"rclone version", "rclone mkdir", "ffmpeg -version", "stat input",
             "ffmpeg duration"}

\* C17: after a fatal precondition failure (ffmpeg missing, input file
\* missing, duration unparsable, rclone or its remote unreachable with the
\* upload requested) the run is over: the failed check is the last thing it
\* did, and no silence detection, derivation, export, rename or upload runs.
C17_FatalStops ==
    \A k \in 1..Len(calls) :
        (calls[k].op \in FatalOps /\ ~calls[k].ok) =>
            /\ pc = "fatal"
            /\ k = Len(calls)
            /\ \A j \in 1..Len(calls) :
                 calls[j].op \in LaterOps => (calls[j].op = "ffmpeg duration" /\ j = k)
            /\ silences = <<>>
            /\ songSegments = NilSlice
            /\ exportedFiles = NilSlice
            /\ disk.files = {}

\* The duration probe printed no Duration line.
C17_Witness ==
    /\ pc = "fatal"
    /\ Len(calls) > 0
    /\ calls[Len(calls)] = Event("ffmpeg duration", <<>>, <<>>, FALSE)

\* C18: once the fatal preconditions have passed, the run reaches its normal
\* end ("All done") whatever exports, renames, the reading of the setlist and
\* the upload do, every external call returning.
C18_ReachesAllDone == (pc = "detect") ~> (pc = "done")

\* The end of a run in which an export, a rename and the upload failed.
C18_Witness ==
    /\ pc = "done"
    /\ Failed("ffmpeg export")
    /\ Failed("rename")
    /\ Failed("rclone copy")

\* The end of a run in which the setlist could not be read to its end.
C18_WitnessReadError ==
    /\ pc = "done"
    /\ setlist.status = "read error"
    /\ Len(files) > 0

-----------------------------------------------------------------------------
(* Further properties of the configuration loader. *)

\* C21: loadConfig never fails; with the config file absent, or present but
\* unreadable or unparsable, the resolved configuration is the defaults
\* overridden by the flags that were set and by nothing of the file, and the
\* run continues; the warning is logged when the file is there and cannot be
\* loaded, and only then.
C21_BadFileFallsBack ==
    /\ pc # "fatal"
    /\ Configured =>
          /\ file.status \in {"absent", "unparsable"} =>
                \A f \in Fields :
                    cfg[f] = IF FlagSet(f) THEN flags[FlagName(f)] ELSE defaultConfig[f]
          /\ Ran("warning") <=> file.status = "unparsable"

\* A file that gave min_song_length 90 before the syntax error, no flag for
\* it: the default stays and the warning is logged.
C21_Witness ==
    /\ Configured
    /\ file.status = "unparsable"
    /\ FileGives("MinSongLength")
    /\ file.keys["min_song_length"] = 90 * Second
    /\ ~FlagSet("MinSongLength")
    /\ cfg.MinSongLength = 200 * Second
    /\ calls = <<Event("warning", <<>>, <<>>, TRUE)>>

\* No file, one flag: no warning.
C21_WitnessAbsent ==
    /\ Configured
    /\ file.status = "absent"
    /\ FlagSet("OutputDir")
    /\ cfg.OutputDir = "cli_out"
    /\ cfg.OutputPrefix = "Song"
    /\ calls = <<>>

\* The Default column of the README's table of configuration parameters.
documentedDefaults ==
    [InputFile |-> "practice_session.mp4",
     MinSilenceDur |-> 5 * Second,
     SilenceThreshold |-> "-30dB",
     MinSongLength |-> 120 * Second,
     OutputPrefix |-> "Song",
     OutputDir |-> "output",
     UploadToDrive |-> FALSE,
     RcloneRemote |-> "gdrive:",
     DriveSubfolder |-> "SplitSongs",
     SetlistFile |-> ""]

\* C22: with no config file and no flag the resolved configuration is the
\* defaults of the README's parameter table: silence_threshold "-30dB",
\* min_silence_duration 5.0, min_song_length 120.0, input_file
\* "practice_session.mp4", output_dir "output", output_prefix "Song",
\* upload_to_drive false, rclone_remote "gdrive:", drive_subfolder
\* "SplitSongs", setlist_file "".
C22_DocumentedDefaults ==
    (Configured /\ file.status = "absent" /\ flags = <<>>) => cfg = documentedDefaults

-----------------------------------------------------------------------------
(* Order of the stages. *)

\* The stage an operation of the run belongs to.
StageOf(op) ==
    CASE op \in {"rclone version", "rclone mkdir", "ffmpeg -version", "stat input"} -> 0
      [] op = "ffmpeg duration" -> 1
      [] op = "ffmpeg silencedetect" -> 2
      [] op \in {"mkdir", "ffmpeg export"} -> 4
      [] op \in {"open setlist", "rename"} -> 5
      [] op = "rclone copy" -> 6
Count(op) == Len(EventsOf(op))

\* C23: in a run that does not abort the stages come in the order duration
\* probe, silence detection, segment derivation, export, rename, upload; the
\* duration probe, the silence detection and the upload copy run at most
\* once (the first two exactly once in a finished run), every segment is
\* exported exactly once, one after the other in ascending segment order,
\* and no rename or upload starts before the last export.
C23_StageOrder ==
    pc # "fatal" =>
        /\ \A j \in 1..Len(calls) : \A k \in (j + 1)..Len(calls) :
             StageOf(calls[j].op) <= StageOf(calls[k].op)
        /\ Count("ffmpeg duration") <= 1
        /\ Count("ffmpeg silencedetect") <= 1
        /\ Count("rclone copy") <= 1
        /\ Count("open setlist") <= 1
        /\ songSegments # NilSlice => (Count("ffmpeg duration") = 1 /\ Count("ffmpeg silencedetect") = 1)
        /\ \A k \in 1..Count("ffmpeg export") :
             /\ k <= Len(out)
             /\ EventsOf("ffmpeg export")[k].segs = <<out[k]>>
        /\ (Ran("open setlist") \/ Ran("rclone copy") \/ pc = "done") =>
             /\ Count("ffmpeg duration") = 1
             /\ Count("ffmpeg silencedetect") = 1
             /\ Count("ffmpeg export") = Len(out)

\* A finished run with two exports, the first of them failed, a rename and
\* the upload.
C23_Witness ==
    /\ pc = "done"
    /\ Count("ffmpeg export") = 2
    /\ ~EventsOf("ffmpeg export")[1].ok
    /\ Count("rename") = 1
    /\ Count("rclone copy") = 1

-----------------------------------------------------------------------------
(* Failures of the rename stage. *)

\* C24: a failed rename does not stop renameFilesFromSetlist: every position
\* below the smaller of the counts of files and titles gets exactly one
\* rename attempt whatever the attempts before it did, and the target name of
\* a position is fixed by the position, its file and its title alone.
C24_RenameFailureSkipsOne ==
    (RenameDone /\ setlist.status = "ok") =>
        /\ Len(Renames) = Paired
        /\ \A j \in 1..Paired :
             Renames[j].files =
                 <<files[j],
                   [dir |-> files[j].dir, form |-> "%02d - %s%s",
                    stem |-> sanitizeFilename(titles[j]), nn |-> Pad2(j),
                    ext |-> files[j].ext]>>

\* The first of two renames failed and the second succeeded.
C24_Witness ==
    /\ RenameDone
    /\ setlist.status = "ok"
    /\ Len(Renames) = 2
    /\ ~Renames[1].ok
    /\ Renames[2].ok
    /\ Renames[2].files[2].nn = <<"0", "2">>
    /\ files[1] \in disk.files
    /\ Renames[2].files[2] \in disk.files

SetlistFailed == setlist.status \in {"missing", "read error"}
OnDisk == {files[k] : k \in 1..Len(files)}

\* C25: when the setlist file cannot be opened, or reading it fails (also
\* after titles were read), no exported file is renamed, the run goes on to
\* the upload stage (when enabled) and completes; and the rename stage is not
\* entered when no setlist file is configured or no file was exported.
C25_SetlistFailureSkipsRename ==
    /\ [](SetlistFailed =>
            /\ pc \in {"upload", "done"}
            /\ ~Ran("rename")
            /\ disk.files = OnDisk
            /\ (pc = "done" /\ cfg.UploadToDrive /\ disk.dir) => Ran("rclone copy"))
    /\ []((RenameDone /\ (cfg.SetlistFile = "" \/ Len(files) = 0)) =>
            (setlist = Unread /\ ~Ran("open setlist") /\ ~Ran("rename")))
    /\ (SetlistFailed ~> (pc = "done"))

\* The read of the setlist failed after the title Reba; the file kept its
\* name and was uploaded.
C25_Witness ==
    /\ pc = "done"
    /\ setlist = [status |-> "read error", lines |-> <<Reba>>]
    /\ Len(files) = 1
    /\ files[1].form = "%s_%02d%s"
    /\ disk.files = {files[1]}
    /\ Ran("rclone copy")

\* The setlist file could not be opened.
C25_WitnessMissing ==
    /\ pc = "done"
    /\ setlist.status = "missing"
    /\ Failed("open setlist")
    /\ Len(files) = 2

-----------------------------------------------------------------------------
(* The segment deriver on degenerate and on well-formed inputs. *)

\* The recording ends before the last silence does.
EndsEarly == n > 0 /\ totalDuration < silences[n].end

\* The inputs of the bounded domain with a recording that ends early.
EarlyInit == DeriverInit /\ EndsEarly

SpecEarly == EarlyInit /\ [][DeriverNext]_vars

\* The inputs of the bounded domain with a well-formed silence list.
WellFormedInit == DeriverInit /\ WellFormed

SpecWellFormed == WellFormedInit /\ [][DeriverNext]_vars

\* C26: when totalDuration is less than the last silence's end the call
\* returns (no error), with no trailing interval, for every MinSongLength
\* >= 0: the result is exactly the qualifying leading and middle candidates,
\* as it is for a recording that ends with its last silence.
C26_EarlyEndNoTrailing ==
    EndsEarly =>
        /\ pc \in {"call", "return"}
        /\ Returned =>
              /\ out = (IF LeadQualifies THEN <<LeadCand>> ELSE <<>>)
                       \o SelectSeq([i \in 1..(n - 1) |-> MidCand(i)],
                                    LAMBDA s : SegLen(s) >= Min)
              /\ songSegments = calculateNonSilentSegments(silences, silences[n].end, cfg)
              /\ Len(out) = NumLeadMid

\* The recording ends 0.3 s before the last silence does and MinSongLength is
\* 0: the leading and the middle candidate are returned, no trailing one.
C26_Witness ==
    /\ Returned
    /\ silences = <<segment(Eps, 2 * Eps), segment(3 * Eps, 4 * Eps)>>
    /\ totalDuration = Eps
    /\ Min = 0
    /\ out = <<segment(0, Eps), segment(2 * Eps, 3 * Eps)>>

Overlap(a, b) ==
    LET lo == IF a.start >= b.start THEN a.start ELSE b.start
        hi == IF a.end <= b.end THEN a.end ELSE b.end
    IN  lo < hi

\* C27: for an ascending, pairwise non-overlapping silence list with start <=
\* end for every silence and totalDuration >= the last silence's end, every
\* returned interval lies inside [0, totalDuration] and shares no stretch of
\* positive length with a silence.
C27_NoSilenceInSongs ==
    (Returned /\ WellFormed) =>
        \A k \in 1..Len(out) :
            /\ 0 <= out[k].start
            /\ out[k].start <= out[k].end
            /\ out[k].end <= totalDuration
            /\ \A i \in 1..n : ~Overlap(out[k], silences[i])

\* Three songs around two silences that touch them.
C27_Witness ==
    /\ Returned
    /\ WellFormed
    /\ silences = <<segment(Eps, 2 * Eps), segment(3 * Eps, 4 * Eps)>>
    /\ totalDuration = 6 * Eps
    /\ Min = Eps
    /\ out = <<segment(0, Eps), segment(2 * Eps, 3 * Eps), segment(4 * Eps, 6 * Eps)>>

-----------------------------------------------------------------------------
(* The silence detector. *)

starts == stderr.starts
ends == stderr.ends
Pairs == IF Len(starts) < Len(ends) THEN Len(starts) ELSE Len(ends)

\* C28: detectSilentSegments pairs the i-th silence_start with the i-th
\* silence_end and returns as many intervals as the smaller of the two
\* counts, in the order of the output; a silence_start without its
\* silence_end yields no interval, and no marker at all yields the empty
\* list.
C28_PairsMarkers ==
    pc = "detected" =>
        /\ Len(silences) = Pairs
        /\ \A i \in 1..Pairs : silences[i] = segment(starts[i], ends[i])
        /\ (starts = <<>> /\ ends = <<>>) => silences = <<>>

\* Two silence_start markers and one silence_end: one interval.
C28_Witness ==
    /\ pc = "detected"
    /\ starts = <<0, 2 * Eps>>
    /\ ends = <<Eps>>
    /\ silences = <<segment(0, Eps)>>

\* No marker: the empty list.
C28_WitnessNone ==
    /\ pc = "detected"
    /\ stderr = NoOutput
    /\ silences = <<>>


\* C29: a failure of the silencedetect run is not told apart from "no silence
\* found": the run does not abort, the silence list is built from the markers
\* that were printed, and when that list is empty and totalDuration >=
\* MinSongLength the whole file is exported as the one segment
\* [0, totalDuration).
C29_DetectorFailureIgnored ==
    Failed("ffmpeg silencedetect") =>
        /\ pc # "fatal"
        /\ Len(silences) = Pairs
        /\ \A i \in 1..Pairs : silences[i] = segment(starts[i], ends[i])
        /\ (SegmentsDecided /\ n = 0 /\ totalDuration >= Min) =>
              out = <<segment(0, totalDuration)>>
        /\ (ExportDone /\ n = 0 /\ totalDuration >= Min) =>
              /\ Count("ffmpeg export") = 1
              /\ EventsOf("ffmpeg export")[1].segs = <<segment(0, totalDuration)>>
              /\ EventsOf("ffmpeg export")[1].ok => Len(files) = 1

\* The silencedetect run failed without printing a marker, and the whole
\* recording of 0.3 s was exported as Song_01.
C29_Witness ==
    /\ pc = "done"
    /\ calls[Len(calls)].op = "ffmpeg export"
    /\ Failed("ffmpeg silencedetect")
    /\ stderr = NoOutput
    /\ totalDuration = 3 * Eps
    /\ Len(files) = 1
    /\ files[1].nn = <<"0", "1">>
    /\ EventsOf("ffmpeg export")[1].segs = <<segment(0, 3 * Eps)>>

\* The run failed after it printed the markers of one silence.
C29_WitnessPartial ==
    /\ Failed("ffmpeg silencedetect")
    /\ pc = "done"
    /\ stderr = [starts |-> <<0, 2 * Eps>>, ends |-> <<Eps>>]
    /\ silences = <<segment(0, Eps)>>

====
